---- MODULE Spec2Model ----
(***************************************************************************)
(* The indicator engine of stock_analysis (TechnicalAnalyzer): the price   *)
(* series held by the analyzer, and calculate_rsi, calculate_macd,          *)
(* calculate_bollinger_bands and analyze computed the way pandas computes   *)
(* them; StockAnalyzer.run, the batch over symbols that shares one          *)
(* analyzer; cli.parse_args and cli.main; RateLimiter and NSEAuthManager of *)
(* api_auth.                                                                *)
(*                                                                         *)
(* Numbers.  The code computes in float64.  The model computes in exact    *)
(* rational arithmetic extended with the IEEE special values the code can  *)
(* produce: NaN and the two infinities.  A value is a record               *)
(*     [k |-> "num", n |-> numerator, d |-> denominator > 0]  (reduced)    *)
(*     [k |-> "nan", ...]      [k |-> "inf", n |-> sign, ...]              *)
(* Rounding error of float64 is not modelled.  The one place where the     *)
(* sign of a floating-point zero decides a result (the division by a zero  *)
(* average loss) takes that sign as an input, because it depends on the    *)
(* pandas build (rolling mean of -0.0 values is -0.0 or +0.0).             *)
(***************************************************************************)
EXTENDS Integers, Sequences, FiniteSets, TLC

VARIABLES
    data,   \* TechnicalAnalyzer.data: the frame held by the analyzer
    last,   \* the most recent call on the analyzer and what it returned
    run,    \* StockAnalyzer.run: the batch, its position and its results
    cli,    \* cli.parse_args and cli.main: the command line and the outcome
    limiter, \* RateLimiter: its timestamps, the clock, the starts of the function
    auth    \* NSEAuthManager: its attributes, the clock, the last return value

vars == <<data, last, run, cli, limiter, auth>>

\* ------------------------------------------------------------------ bounds

\* Longest enumerated close series.
MaxLen == 4
\* Windows (RSI, Bollinger) are 1..MaxPeriod, and the default.
MaxPeriod == 4
\* MACD spans: fast in 1..MaxFast, slow in 1..MaxSlow, signal in 1..MaxSignal,
\* and the defaults.
MaxFast == 2

MaxSlow == 3

MaxSignal == 2

\* ------------------------------------------------- float64, exact fragment

Abs(x) == IF x < 0 THEN -x ELSE x

Sign(x) == IF x < 0 THEN -1 ELSE IF x > 0 THEN 1 ELSE 0

RECURSIVE GCD(_, _)
GCD(a, b) == IF b = 0 THEN a ELSE GCD(b, a % b)

\* The number n/d (d # 0), reduced, denominator positive.
Num(n, d) ==
    LET g == GCD(Abs(n), Abs(d))
        s == IF d < 0 THEN -1 ELSE 1
    IN  [k |-> "num", n |-> s * (n \div g), d |-> Abs(d) \div g]

NaN == [k |-> "nan", n |-> 0, d |-> 1]

Inf(s) == [k |-> "inf", n |-> s, d |-> 1]

Zero == Num(0, 1)

IsNum(a) == a.k = "num"

FNeg(a) == IF a.k = "nan" THEN a ELSE [a EXCEPT !.n = -a.n]

FAdd(a, b) ==
    CASE a.k = "nan" \/ b.k = "nan" -> NaN
      [] a.k = "inf" /\ b.k = "inf" -> IF a.n = b.n THEN a ELSE NaN
      [] a.k = "inf" -> a
      [] b.k = "inf" -> b
      [] OTHER ->
            LET g == GCD(a.d, b.d)
                l == (a.d \div g) * b.d
            IN  Num(a.n * (l \div a.d) + b.n * (l \div b.d), l)

FSub(a, b) == FAdd(a, FNeg(b))

FMul(a, b) ==
    CASE a.k = "nan" \/ b.k = "nan" -> NaN
      [] a.k = "inf" \/ b.k = "inf" ->
            IF a.n = 0 \/ b.n = 0 THEN NaN ELSE Inf(Sign(a.n) * Sign(b.n))
      [] OTHER ->
            LET g1 == GCD(Abs(a.n), b.d)
                g2 == GCD(Abs(b.n), a.d)
            IN  Num((a.n \div g1) * (b.n \div g2), (a.d \div g2) * (b.d \div g1))

\* a / b; zs (1 or -1) is the sign of b when b is a zero.
FDivZ(a, b, zs) ==
    CASE a.k = "nan" \/ b.k = "nan" -> NaN
      [] a.k = "inf" /\ b.k = "inf" -> NaN
      [] a.k = "inf" -> Inf(a.n * (IF b.n = 0 THEN zs ELSE Sign(b.n)))
      [] b.k = "inf" -> Zero
      [] b.n = 0 -> IF a.n = 0 THEN NaN ELSE Inf(Sign(a.n) * zs)
      [] OTHER ->
            LET g1 == GCD(Abs(a.n), Abs(b.n))
                g2 == GCD(a.d, b.d)
            IN  Num((a.n \div g1) * (b.d \div g2), (a.d \div g2) * (b.n \div g1))

FDiv(a, b) == FDivZ(a, b, 1)

\* Comparisons; any comparison with NaN is false.
FLt(a, b) ==
    /\ a.k # "nan" /\ b.k # "nan"
    /\ CASE a.k = "inf" /\ b.k = "inf" -> a.n < b.n
         [] a.k = "inf" -> a.n < 0
         [] b.k = "inf" -> b.n > 0
         [] OTHER -> FSub(a, b).n < 0

FGt(a, b) == FLt(b, a)

FLe(a, b) == a.k # "nan" /\ b.k # "nan" /\ ~FLt(b, a)

RECURSIVE FSum(_)
FSum(s) == IF s = <<>> THEN Zero ELSE FAdd(FSum(Tail(s)), Head(s))

Last(s) == s[Len(s)]

\* ----------------------------------------------------------- pandas Series

\* self.data['CLOSE']: the close column as a float64 Series.
CLOSE(df) == [i \in 1..Len(df.close) |-> Num(df.close[i], 1)]

\* len(self.data); only called when the data is not None.
DfLen(df) == Len(df.close)

\* Series.diff(): the first element has no predecessor and is NaN.
Diff(s) == [i \in 1..Len(s) |-> IF i = 1 THEN NaN ELSE FSub(s[i], s[i - 1])]

\* Mutant of Gains: the comparison the wrong way round.
Gains_WrongSign(delta) ==
    [i \in 1..Len(delta) |-> IF FLt(delta[i], Zero) THEN delta[i] ELSE Zero]

\* delta.where(delta > 0, 0): NaN > 0 is false, so NaN becomes 0.
Gains(delta) ==
    [i \in 1..Len(delta) |-> IF FGt(delta[i], Zero) THEN delta[i] ELSE Zero]

\* -delta.where(delta < 0, 0)
Losses(delta) ==
    [i \in 1..Len(delta) |-> FNeg(IF FLt(delta[i], Zero) THEN delta[i] ELSE Zero)]

\* Mutant of RollingMean: an expanding mean, over everything seen so far.
RollingMean_Expanding(s, window) ==
    [i \in 1..Len(s) |->
        IF i < window THEN NaN ELSE FDiv(FSum(SubSeq(s, 1, i)), Num(i, 1))]

\* Series.rolling(window).mean(), min_periods = window: NaN until `window`
\* observations are available, then the mean of the last `window` values.
RollingMean(s, window) ==
    [i \in 1..Len(s) |->
        IF i < window THEN NaN
        ELSE FDiv(FSum(SubSeq(s, i - window + 1, i)), Num(window, 1))]

\* pandas raises ValueError("window must be an integer 0 or greater") for a
\* negative window; a window of 0 is accepted and every value is NaN.  The
\* calculate_* methods catch the exception, log it and return None.
RollingRaises(window) == window < 0

\* ------------------------------------------------------------------- RSI

\* The value None, and a returned tuple of numbers.
None == [none |-> TRUE, v |-> <<>>]

Some(v) == [none |-> FALSE, v |-> v]

\* Mutant of RsiTooShort: asks for period + 1 observations.
RsiTooShort_NeedsDeltas(df, period) == df.none \/ DfLen(df) < period + 1

\* The guard of calculate_rsi.
RsiTooShort(df, period) == df.none \/ DfLen(df) < period

\* rsi = 100 - (100 / (1 + rs)), elementwise.
RsiOfRs(rs) == FSub(Num(100, 1), FDiv(Num(100, 1), FAdd(Num(1, 1), rs)))

\* calculate_rsi(period); zs is the sign of a zero average loss.
calculate_rsi(df, period, zs) ==
    IF RsiTooShort(df, period) THEN None
    ELSE IF RollingRaises(period) THEN None
    ELSE LET delta      == Diff(CLOSE(df))
             gains      == Gains(delta)
             losses     == Losses(delta)
             avg_gains  == RollingMean(gains, period)
             avg_losses == RollingMean(losses, period)
             rs  == [i \in 1..Len(delta) |-> FDivZ(avg_gains[i], avg_losses[i], zs)]
             rsi == [i \in 1..Len(delta) |-> RsiOfRs(rs[i])]
         IN  IF DfLen(df) = 0 THEN None  \* iloc[-1] raises IndexError
             ELSE Some(<<Last(rsi)>>)

\* ------------------------------------------------------------------ MACD

\* Mutant of Alpha: Wilder's smoothing, alpha = 1 / span.
Alpha_Wilder(span) == Num(1, span)

\* pandas: span -> com = (span - 1) / 2 -> alpha = 1 / (1 + com) = 2 / (span + 1).
Alpha(span) == Num(2, span + 1)

\* One step of ewm(adjust=False): old_wt = 1 - alpha on the running average,
\* new_wt = alpha on the newest observation.
EwmStep(weighted, cur, alpha) ==
    FAdd(FMul(FSub(Num(1, 1), alpha), weighted), FMul(alpha, cur))

RECURSIVE EwmFrom(_, _, _, _)
EwmFrom(s, alpha, i, out) ==
    IF i > Len(s) THEN out
    ELSE EwmFrom(s, alpha, i + 1, Append(out, EwmStep(Last(out), s[i], alpha)))

\* Mutant of Ewm: the average seeded by 0 instead of the first value.
Ewm_SeedZero(s, span) ==
    IF s = <<>> THEN <<>>
    ELSE EwmFrom(s, Alpha(span), 2, <<EwmStep(Zero, s[1], Alpha(span))>>)

\* Series.ewm(span=span, adjust=False).mean(): seeded by the first value, then
\* the recursion over every later observation of the series.
Ewm(s, span) == IF s = <<>> THEN <<>> ELSE EwmFrom(s, Alpha(span), 2, <<s[1]>>)

\* The guard of calculate_macd.
MacdTooShort(df, slow_period) == df.none \/ DfLen(df) < slow_period

\* pandas raises ValueError("span must satisfy: span >= 1"); the method's
\* except clause logs it and returns None.
EwmRaises(span) == span < 1

calculate_macd(df, fast_period, slow_period, signal_period) ==
    IF MacdTooShort(df, slow_period) THEN None
    ELSE IF EwmRaises(fast_period) \/ EwmRaises(slow_period) THEN None
    ELSE LET fast_ema  == Ewm(CLOSE(df), fast_period)
             slow_ema  == Ewm(CLOSE(df), slow_period)
             macd_line == [i \in 1..DfLen(df) |-> FSub(fast_ema[i], slow_ema[i])]
         IN  IF EwmRaises(signal_period) THEN None
             ELSE LET signal_line == Ewm(macd_line, signal_period)
                      histogram   ==
                          [i \in 1..DfLen(df) |-> FSub(macd_line[i], signal_line[i])]
                  IN  IF DfLen(df) = 0 THEN None  \* iloc[-1] raises IndexError
                      ELSE Some(<<Last(macd_line), Last(signal_line), Last(histogram)>>)

\* ------------------------------------------------------- Bollinger bands

\* Values p + q * sqrt(r) with p, q, r rational (r >= 0): the standard
\* deviation is a square root.  [k |-> "num" | "nan", p, q, r]; q = 0 or
\* r = 0 is stored as q = 0, r = 0.
SNaN == [k |-> "nan", p |-> Zero, q |-> Zero, r |-> Zero]

SMk(p, q, r) ==
    IF q.n = 0 \/ r.n = 0 THEN [k |-> "num", p |-> p, q |-> Zero, r |-> Zero]
    ELSE [k |-> "num", p |-> p, q |-> q, r |-> r]

SOf(f) == IF IsNum(f) THEN SMk(f, Zero, Zero) ELSE SNaN

\* numpy sqrt: NaN for NaN and for a negative number.
Sqrt(f) == IF IsNum(f) /\ f.n >= 0 THEN SMk(Zero, Num(1, 1), f) ELSE SNaN

\* a * c for a number c (std * num_std).
SScale(a, c) ==
    IF a.k = "nan" \/ ~IsNum(c) THEN SNaN ELSE SMk(FMul(a.p, c), FMul(a.q, c), a.r)

SNeg(a) == IF a.k = "nan" THEN SNaN ELSE SMk(FNeg(a.p), FNeg(a.q), a.r)

\* a + b, for a and b over the same square root.
SAdd(a, b) ==
    IF a.k = "nan" \/ b.k = "nan" THEN SNaN
    ELSE SMk(FAdd(a.p, b.p), FAdd(a.q, b.q), IF a.q.n = 0 THEN b.r ELSE a.r)

SSub(a, b) == SAdd(a, SNeg(b))

\* The sign of p + q * sqrt(r).
SSign(a) ==
    LET P == Sign(a.p.n)
        Q == Sign(a.q.n)
    IN  IF Q = 0 THEN P
        ELSE IF P = 0 \/ P = Q THEN Q
        ELSE P * Sign(FSub(FMul(a.p, a.p), FMul(FMul(a.q, a.q), a.r)).n)

\* a <= b; false when either is NaN.
SLe(a, b) == a.k = "num" /\ b.k = "num" /\ SSign(SSub(b, a)) >= 0

\* pandas' rolling variance accumulates one observation at a time (Welford):
\* nobs, mean_x and ssqdm_x, the sum of squared differences from the mean.
RECURSIVE AddVar(_, _, _, _, _)
AddVar(w, i, nobs, mean_x, ssqdm_x) ==
    IF i > Len(w) THEN ssqdm_x
    ELSE LET delta == FSub(w[i], mean_x)
             mean2 == FAdd(mean_x, FDiv(delta, Num(nobs + 1, 1)))
         IN  AddVar(w, i + 1, nobs + 1, mean2,
                    FAdd(ssqdm_x, FMul(FSub(w[i], mean_x), FSub(w[i], mean2))))

\* Mutant of CalcVar: the population variance, divided by nobs.
CalcVar_Population(w, ddof) ==
    IF Len(w) > ddof THEN FDiv(AddVar(w, 1, 0, Zero, Zero), Num(Len(w), 1))
    ELSE NaN

\* calc_var with ddof: NaN unless nobs > ddof.
CalcVar(w, ddof) ==
    IF Len(w) > ddof THEN FDiv(AddVar(w, 1, 0, Zero, Zero), Num(Len(w) - ddof, 1))
    ELSE NaN

\* Series.rolling(window).std(): ddof = 1, min_periods = window.
RollingStd(s, window) ==
    [i \in 1..Len(s) |->
        IF i < window THEN SNaN
        ELSE Sqrt(CalcVar(SubSeq(s, i - window + 1, i), 1))]

\* The guard of calculate_bollinger_bands.
BollingerTooShort(df, period) == df.none \/ DfLen(df) < period

calculate_bollinger_bands(df, period, num_std) ==
    IF BollingerTooShort(df, period) THEN None
    ELSE IF RollingRaises(period) THEN None
    ELSE LET middle_band == RollingMean(CLOSE(df), period)
             std         == RollingStd(CLOSE(df), period)
             upper_band  ==
                 [i \in 1..DfLen(df) |-> SAdd(SOf(middle_band[i]), SScale(std[i], num_std))]
             lower_band  ==
                 [i \in 1..DfLen(df) |-> SSub(SOf(middle_band[i]), SScale(std[i], num_std))]
         IN  IF DfLen(df) = 0 THEN None  \* iloc[-1] raises IndexError
             ELSE Some(<<Last(upper_band), SOf(Last(middle_band)), Last(lower_band)>>)

\* ------------------------------------------------------------ state machine

RECURSIVE SeqsUpTo(_, _)
SeqsUpTo(S, n) ==
    IF n = 0 THEN {<<>>}
    ELSE LET shorter == SeqsUpTo(S, n - 1)
         IN  shorter \cup {Append(s, x) : s \in {t \in shorter : Len(t) = n - 1}, x \in S}

\* Closes of the enumerated series.
Prices == {0, 1, 2}

\* The enumerated close series.
SmallSeries == SeqsUpTo(Prices, MaxLen)

\* The documented scenarios: 30 closes rising 100, 101, ..., 129; 26 closes
\* of 50; 20 closes of 200.
Rising30 == [i \in 1..30 |-> 99 + i]

Const26 == [i \in 1..26 |-> 50]

Const20 == [i \in 1..20 |-> 200]

\* 22 observations that rise and fall: long enough for RSI (14) and the
\* bands (20), too short for MACD (26).
Saw22 == [i \in 1..22 |-> 10 + (i % 3)]

AllSeries == SmallSeries \cup {Rising30, Const26, Const20, Saw22}

\* Default parameters of the calculate_* methods.
DefaultRsiPeriod == 14

DefaultFast == 12

DefaultSlow == 26

DefaultSignal == 9

DefaultBollingerPeriod == 20

DefaultNumStd == 2

\* Periods tried: the code accepts any integer, zero and negatives included.
RsiPeriods == (-1..MaxPeriod) \cup {DefaultRsiPeriod}

BollingerPeriods == (-1..MaxPeriod) \cup {DefaultBollingerPeriod}

\* Multipliers tried; the code accepts any number, a negative one included.
NumStds == {-1, 0, 1, 2}

NonPositiveSpans == {<<0, 1, 1>>, <<1, 0, 1>>, <<1, 1, 0>>, <<-1, 2, 1>>}

MacdSpans ==
    ((1..MaxFast) \X (1..MaxSlow) \X (1..MaxSignal))
        \cup {<<DefaultFast, DefaultSlow, DefaultSignal>>}
        \cup NonPositiveSpans

IsConstant(s) == \A i \in 1..Len(s) : s[i] = s[1]

\* The exponential averages of a long series have denominators (span + 1)^len,
\* beyond the integers TLC evaluates, unless the series is constant: MACD is
\* exercised on the enumerated series and on the constant scenarios.
EwmInRange(df) == df.none \/ DfLen(df) <= MaxLen \/ IsConstant(df.close)

\* A frame as the data source builds it: one row per date, with the OHLC
\* columns.  MkFrame(s) is the well-formed frame whose closes are s.
MkFrame(s) ==
    [none |-> FALSE, close |-> s, open |-> s, high |-> s, low |-> s,
     date |-> [i \in 1..Len(s) |-> i]]

\* Frames that break the input invariants: a duplicated date, dates out of
\* order, a high below the close, a low above the close.
DuplicatedDates20 == [MkFrame(Const20) EXCEPT !.date[2] = 1]

UnorderedDates3 == [MkFrame(<<1, 2, 0>>) EXCEPT !.date = <<2, 1, 3>>]

HighBelowClose22 == [MkFrame(Saw22) EXCEPT !.high = [i \in 1..22 |-> 0]]

LowAboveClose2 == [MkFrame(<<1, 2>>) EXCEPT !.low = <<2, 3>>]

MalformedFrames ==
    {DuplicatedDates20, UnorderedDates3, HighBelowClose22, LowAboveClose2}

AllFrames == {MkFrame(s) : s \in AllSeries} \cup MalformedFrames

NoData ==
    [none |-> TRUE, close |-> <<>>, open |-> <<>>, high |-> <<>>, low |-> <<>>,
     date |-> <<>>]

\* TechnicalIndicators(): every field defaults to None.
TechnicalIndicators == [rsi |-> None, macd |-> None, bollinger_bands |-> None]

\* Identifiers a request may hold: the three the dispatcher knows, one in
\* lower case, and one it does not know.
Requests ==
    { {}, {"RSI"}, {"MACD"}, {"BB"}, {"RSI", "MACD"}, {"RSI", "MACD", "BB"},
      {"rsi"}, {"RSI", "MA"} }

\* analyze(indicators) that computes all three indicators whatever is asked.
analyze_ComputesAll(df, indicators, zs) ==
    IF df.none THEN TechnicalIndicators
    ELSE [rsi |-> calculate_rsi(df, DefaultRsiPeriod, zs),
          macd |-> calculate_macd(df, DefaultFast, DefaultSlow, DefaultSignal),
          bollinger_bands |->
                calculate_bollinger_bands(df, DefaultBollingerPeriod,
                                          Num(DefaultNumStd, 1))]

\* analyze(indicators) that gives up on the whole request as soon as one
\* requested indicator has too little history.
analyze_AllOrNothing(df, indicators, zs) ==
    IF df.none THEN TechnicalIndicators
    ELSE IF \/ "RSI" \in indicators /\ RsiTooShort(df, DefaultRsiPeriod)
            \/ "MACD" \in indicators /\ MacdTooShort(df, DefaultSlow)
            \/ "BB" \in indicators /\ BollingerTooShort(df, DefaultBollingerPeriod)
    THEN TechnicalIndicators
    ELSE [rsi |-> IF "RSI" \in indicators
                  THEN calculate_rsi(df, DefaultRsiPeriod, zs)
                  ELSE None,
          macd |-> IF "MACD" \in indicators
                   THEN calculate_macd(df, DefaultFast, DefaultSlow, DefaultSignal)
                   ELSE None,
          bollinger_bands |->
                   IF "BB" \in indicators
                   THEN calculate_bollinger_bands(df, DefaultBollingerPeriod,
                                                  Num(DefaultNumStd, 1))
                   ELSE None]

\* analyze(indicators): each `if '<ID>' in indicators` runs the calculate_*
\* method with its default parameters; nothing else is looked at.
analyze(df, indicators, zs) ==
    IF df.none THEN TechnicalIndicators
    ELSE [rsi |-> IF "RSI" \in indicators
                  THEN calculate_rsi(df, DefaultRsiPeriod, zs)
                  ELSE None,
          macd |-> IF "MACD" \in indicators
                   THEN calculate_macd(df, DefaultFast, DefaultSlow, DefaultSignal)
                   ELSE None,
          bollinger_bands |->
                   IF "BB" \in indicators
                   THEN calculate_bollinger_bands(df, DefaultBollingerPeriod,
                                                  Num(DefaultNumStd, 1))
                   ELSE None]

\* ------------------------------------------------------ TechnicalAnalyzer

\* No call is pending.  raised tells whether the call ended in an exception:
\* every calculate_* method catches Exception and returns None instead, and
\* analyze only calls them, so no call of the analyzer ever sets it.
NoCall == [op |-> "none", args |-> <<>>, zs |-> 1, res |-> None, raised |-> FALSE]

\* set_data(data) that keeps the frame the analyzer already holds.
set_data_KeepsFirst(df, new) == IF df.none THEN new ELSE df

\* set_data(data): the analyzer holds the frame it is given, unexamined.
set_data(df, new) == new

\* set_data(data) on an analyzer used on its own, with any frame.
SetData ==
    /\ last.op = "none"
    /\ run.pc = "new"
    /\ \E df \in AllFrames : data' = set_data(data, df)
    /\ UNCHANGED <<last, run, cli, limiter, auth>>

\* calculate_rsi(period) that drops the first observation (the row whose
\* difference is NaN) from the frame it was given.
CalculateRsi_DropsFirstRow ==
    /\ last.op = "none"
    /\ \E period \in RsiPeriods, zs \in {-1, 1} :
          last' = [op |-> "calculate_rsi", args |-> <<period>>, zs |-> zs,
                   res |-> calculate_rsi(data, period, zs), raised |-> FALSE]
    /\ data' = [data EXCEPT !.close = IF Len(@) > 0 THEN Tail(@) ELSE @]
    /\ UNCHANGED <<run, cli, limiter, auth>>

CalculateRsi ==
    /\ last.op = "none"
    /\ \E period \in RsiPeriods, zs \in {-1, 1} :
          last' = [op |-> "calculate_rsi", args |-> <<period>>, zs |-> zs,
                   res |-> calculate_rsi(data, period, zs), raised |-> FALSE]
    /\ UNCHANGED <<data, run, cli, limiter, auth>>

CalculateMacd ==
    /\ last.op = "none"
    /\ EwmInRange(data)
    /\ \E sp \in MacdSpans :
          last' = [op |-> "calculate_macd", args |-> sp, zs |-> 1,
                   res |-> calculate_macd(data, sp[1], sp[2], sp[3]),
                   raised |-> FALSE]
    /\ UNCHANGED <<data, run, cli, limiter, auth>>

CalculateBollingerBands ==
    /\ last.op = "none"
    /\ \E period \in BollingerPeriods, num_std \in NumStds :
          last' = [op |-> "calculate_bollinger_bands", args |-> <<period, num_std>>,
                   zs |-> 1,
                   res |-> calculate_bollinger_bands(data, period, Num(num_std, 1)),
                   raised |-> FALSE]
    /\ UNCHANGED <<data, run, cli, limiter, auth>>

\* analyze(indicators); MACD is asked for where its averages stay in range.
Analyze ==
    /\ last.op = "none"
    /\ \E indicators \in Requests, zs \in {-1, 1} :
          /\ "MACD" \in indicators =>
                EwmInRange(data) \/ DfLen(data) < DefaultSlow
          /\ last' = [op |-> "analyze", args |-> <<indicators>>, zs |-> zs,
                      res |-> analyze(data, indicators, zs), raised |-> FALSE]
    /\ UNCHANGED <<data, run, cli, limiter, auth>>

\* The caller takes the returned value; the analyzer is ready for the next call.
Return ==
    /\ last.op # "none"
    /\ last' = NoCall
    /\ UNCHANGED <<data, run, cli, limiter, auth>>

\* ------------------------------------------------------- StockAnalyzer.run

\* What the data source returns for a symbol: the frame is a function of the
\* symbol; one symbol has no rows.
Fetch(symbol) ==
    CASE symbol = "TCS"  -> MkFrame(Saw22)
      [] symbol = "INFY" -> MkFrame(Const26)
      [] OTHER           -> MkFrame(<<>>)

Symbols == {"TCS", "INFY", "NODATA"}

\* The symbol lists a StockAnalyzer is built with.
Batches ==
    { <<"TCS">>, <<"INFY">>, <<"TCS", "INFY">>, <<"INFY", "TCS">>,
      <<"NODATA", "TCS">>, <<"INFY", "NODATA">>, <<"TCS", "TCS">> }

\* The indicators argument of StockAnalyzer; {} stands for None or [].
RunIndicators == { {}, {"BB"}, {"RSI", "MACD", "BB"} }

Absent == [present |-> FALSE, technical_indicators |-> TechnicalIndicators]

NoResults == [s \in Symbols |-> Absent]

NotBuilt ==
    [pc |-> "new", symbols |-> <<>>, indicators |-> {}, i |-> 0,
     results |-> NoResults]

\* StockAnalyzer(symbols, indicators=...): a fresh TechnicalAnalyzer, and
\* `indicators or ['RSI', 'MACD']`.
NewStockAnalyzer ==
    /\ run.pc = "new"
    /\ last.op = "none"
    /\ \E symbols \in Batches, indicators \in RunIndicators :
          run' = [NotBuilt EXCEPT !.pc = "idle", !.symbols = symbols,
                     !.indicators = IF indicators = {} THEN {"RSI", "MACD"}
                                    ELSE indicators]
    /\ data' = NoData
    /\ UNCHANGED <<last, cli, limiter, auth>>

\* The analyzer of a StockAnalyzer is reachable as tech_analyzer: between two
\* runs its owner may call set_data on it with one of the scenario frames.
PlantedFrames ==
    {MkFrame(<<2, 1>>), MkFrame(Rising30), MkFrame(Const20)} \cup MalformedFrames

PlantData ==
    /\ run.pc = "idle"
    /\ \E df \in PlantedFrames : data' = set_data(data, df)
    /\ UNCHANGED <<last, run, cli, limiter, auth>>

\* run() is entered: results = {}.
RunStart ==
    /\ run.pc = "idle"
    /\ last.op = "none"
    /\ run' = [run EXCEPT !.pc = "loop", !.i = 1, !.results = NoResults]
    /\ UNCHANGED <<data, last, cli, limiter, auth>>

\* One iteration of `for symbol in self.symbols`.  The data source answers,
\* or raises in get_historical_data, or raises in get_current_data; the try
\* block encloses the whole loop and its handler logs and re-raises, so an
\* exception ends run() and the dictionary built so far is never returned.
RunSymbol ==
    /\ run.pc = "loop"
    /\ run.i <= Len(run.symbols)
    /\ LET symbol == run.symbols[run.i]
           df     == Fetch(symbol)
       IN  \E failure \in {"none", "historical", "current"}, zs \in {-1, 1} :
              IF failure = "historical"
              THEN /\ run' = [run EXCEPT !.pc = "raised", !.results = NoResults]
                   /\ UNCHANGED data
              ELSE IF DfLen(df) = 0
              THEN /\ run' = [run EXCEPT !.i = @ + 1]
                   /\ UNCHANGED data
              ELSE IF failure = "current"
              THEN /\ run' = [run EXCEPT !.pc = "raised", !.results = NoResults]
                   /\ data' = set_data(data, df)
              ELSE /\ data' = set_data(data, df)
                   /\ run' = [run EXCEPT
                                !.i = @ + 1,
                                !.results[symbol] =
                                    [present |-> TRUE,
                                     technical_indicators |->
                                        analyze(set_data(data, df),
                                                run.indicators, zs)]]
    /\ UNCHANGED <<last, cli, limiter, auth>>

\* The loop is over: return results.
RunReturn ==
    /\ run.pc = "loop"
    /\ run.i > Len(run.symbols)
    /\ run' = [run EXCEPT !.pc = "returned"]
    /\ UNCHANGED <<data, last, cli, limiter, auth>>

\* The caller has the dictionary or the exception; run() may be called again.
RunDone ==
    /\ run.pc \in {"returned", "raised"}
    /\ run' = [run EXCEPT !.pc = "idle", !.i = 0, !.results = NoResults]
    /\ UNCHANGED <<data, last, cli, limiter, auth>>

\* ---------------------------------------------------------- cli.parse_args

\* The value of an option that is not on the command line.
Omitted == "<omitted>"

\* int(token) as argparse applies it for type=int; a token that is not an
\* integer makes argparse exit with an error.
IntValue(n) == [ok |-> TRUE, v |-> n]

IntError == [ok |-> FALSE, v |-> 0]

IntOf(token) ==
    CASE token = "-1"   -> IntValue(-1)
      [] token = "0"    -> IntValue(0)
      [] token = "1"    -> IntValue(1)
      [] token = "30"   -> IntValue(30)
      [] token = "90"   -> IntValue(90)
      [] token = "365"  -> IntValue(365)
      [] token = "1825" -> IntValue(1825)
      [] token = "1826" -> IntValue(1826)
      [] OTHER          -> IntError

PeriodTokens == {"-1", "0", "1", "30", "90", "365", "1825", "1826", "abc"}

IndicatorTexts == {"RSI", "RSI,MACD", "rsi", "RSI,FOO", ""}

SymbolTexts == {"TCS", "TCS,INFY", "tcs, infy", "TC$"}

\* A str value and a list value are different objects even when they spell
\* the same identifiers.
Str(text) == [type |-> "str", v |-> text]

List(items) == [type |-> "list", v |-> items]

\* The defaults given to add_argument.
CliDefaultPeriod == 365

CliDefaultIndicators == Str("RSI,MACD")

NoNamespace == [symbols |-> Str(""), period |-> 0, indicators |-> Str("")]

\* What cli.main has done: nothing yet.
NoOutcome ==
    [called |-> FALSE, exit_code |-> 0, run_called |-> FALSE,
     symbols |-> <<>>, period |-> 0, indicators |-> <<>>]

NotParsed ==
    [pc |-> "idle", given |-> TRUE,
     argv |-> [symbols |-> Omitted, period |-> Omitted, indicators |-> Omitted],
     ns |-> NoNamespace, out |-> NoOutcome]

\* parse_args(args): --symbols is required; --period is converted with int;
\* --symbols and --indicators are kept as the str that was typed.
parse_args(argv) ==
    IF argv.symbols = Omitted THEN [exit |-> TRUE, ns |-> NoNamespace]
    ELSE IF argv.period # Omitted /\ ~IntOf(argv.period).ok
    THEN [exit |-> TRUE, ns |-> NoNamespace]
    ELSE [exit |-> FALSE,
          ns |-> [symbols |-> Str(argv.symbols),
                  period |-> IF argv.period = Omitted THEN CliDefaultPeriod
                             ELSE IntOf(argv.period).v,
                  indicators |-> IF argv.indicators = Omitted
                                 THEN CliDefaultIndicators
                                 ELSE Str(argv.indicators)]]

\* The command lines tried.
CommandLines ==
    [symbols : SymbolTexts \cup {Omitted},
     period : PeriodTokens \cup {Omitted},
     indicators : IndicatorTexts \cup {Omitted}]

\* parse_args(args) or parse_args(): `args` is a required positional
\* parameter, so a call without it raises TypeError before anything is
\* parsed.
ParseArgs ==
    /\ cli.pc = "idle"
    /\ \E argv \in CommandLines, given \in BOOLEAN :
          LET out == parse_args(argv)
          IN  cli' = [NotParsed EXCEPT
                        !.pc = IF ~given THEN "raised"
                               ELSE IF out.exit THEN "exit" ELSE "parsed",
                        !.given = given,
                        !.argv = argv,
                        !.ns = IF given THEN out.ns ELSE NoNamespace]
    /\ UNCHANGED <<data, last, run, limiter, auth>>

\* ------------------------------------------------------------------ cli.main

\* text.split(','), for the texts tried.
Split(text) ==
    CASE text = "TCS,INFY"  -> <<"TCS", "INFY">>
      [] text = "tcs, infy" -> <<"tcs", " infy">>
      [] text = "RSI,MACD"  -> <<"RSI", "MACD">>
      [] text = "RSI,FOO"   -> <<"RSI", "FOO">>
      [] OTHER              -> <<text>>

\* item.strip().upper()
StripUpper(item) ==
    CASE item = "tcs"   -> "TCS"
      [] item = " infy" -> "INFY"
      [] item = "rsi"   -> "RSI"
      [] OTHER          -> item

\* item.isalnum()
IsAlnum(item) == item \notin {"", "TC$"}

Valid(v) == [ok |-> TRUE, v |-> v]

Invalid == [ok |-> FALSE, v |-> <<>>]

\* validate_symbols(symbols)
validate_symbols(symbols) ==
    IF symbols = "" THEN Invalid
    ELSE LET parts       == Split(symbols)
             symbol_list == [i \in 1..Len(parts) |-> StripUpper(parts[i])]
         IN  IF \A i \in 1..Len(symbol_list) : IsAlnum(symbol_list[i])
             THEN Valid(symbol_list)
             ELSE Invalid

\* validate_period(period): 1 .. 365 * 5.  Nothing in the package calls it.
validate_period(period) ==
    IF period <= 0 THEN Invalid
    ELSE IF period > 365 * 5 THEN Invalid
    ELSE Valid(period)

\* validate_indicators(indicators)
validate_indicators(indicators) ==
    IF indicators = "" THEN Valid(<<"RSI", "MACD">>)
    ELSE LET parts          == Split(indicators)
             indicator_list == [i \in 1..Len(parts) |-> StripUpper(parts[i])]
         IN  IF \A i \in 1..Len(indicator_list) :
                    indicator_list[i] \in {"RSI", "MACD", "BB"}
             THEN Valid(indicator_list)
             ELSE Invalid

\* What main does with a namespace: validate_symbols, then validate_indicators
\* when the text is not empty (None otherwise, written <<>>); args.period is
\* handed to StockAnalyzer as parsed, and validate_period is never called.
\* run() raising is caught by `except Exception` and gives exit code 1.
main(argv, run_raises) ==
    LET parsed == parse_args(argv)
        ns     == parsed.ns
        syms   == validate_symbols(ns.symbols.v)
        inds   == IF ns.indicators.v = "" THEN Valid(<<>>)
                  ELSE validate_indicators(ns.indicators.v)
    IN  IF parsed.exit
        THEN [NoOutcome EXCEPT !.called = TRUE, !.exit_code = 2]
        ELSE IF ~syms.ok \/ ~inds.ok
        THEN [NoOutcome EXCEPT !.called = TRUE, !.exit_code = 1]
        ELSE [called |-> TRUE,
              exit_code |-> IF run_raises THEN 1 ELSE 0,
              run_called |-> TRUE,
              symbols |-> syms.v, period |-> ns.period, indicators |-> inds.v]

\* main(argv): argparse leaves through SystemExit (code 2), which main does
\* not catch; every other path returns 0 or 1.
CliMain ==
    /\ cli.pc = "idle"
    /\ \E argv \in CommandLines, run_raises \in BOOLEAN :
          cli' = [NotParsed EXCEPT
                    !.pc = IF parse_args(argv).exit THEN "exit" ELSE "returned",
                    !.argv = argv,
                    !.ns = parse_args(argv).ns,
                    !.out = main(argv, run_raises)]
    /\ UNCHANGED <<data, last, run, limiter, auth>>
\* The caller has the namespace, or the process has exited; a new command
\* line is parsed by a new invocation.
CliReturn ==
    /\ cli.pc # "idle"
    /\ cli' = NotParsed
    /\ UNCHANGED <<data, last, run, limiter, auth>>

\* ------------------------------------------------------------ RateLimiter

\* Calls of the wrapped function followed, and the longest time (in seconds)
\* between the end of one call and the next call.
MaxWrapperCalls == 4

MaxGap == 3

\* The limits tried: RateLimiter(calls, period).
LimiterCalls == {1, 2}

LimiterPeriods == {2, 3}

\* No limiter is built.  clock is time.time(); starts are the times at which
\* the wrapped function was started.
NoLimiter ==
    [built |-> FALSE, calls |-> 0, period |-> 0, timestamps |-> <<>>,
     clock |-> 0, starts |-> <<>>]

\* RateLimiter(calls, period): timestamps = [].
NewRateLimiter ==
    /\ ~limiter.built
    /\ \E calls \in LimiterCalls, period \in LimiterPeriods :
          limiter' = [NoLimiter EXCEPT !.built = TRUE, !.calls = calls,
                                       !.period = period]
    /\ UNCHANGED <<data, last, run, cli, auth>>

\* wrapper(*args): now = time.time(); the timestamps older than the window
\* are dropped; with `calls` timestamps left it sleeps until the oldest one
\* leaves the window; it records now, the time read before the sleep, and
\* then starts the function.
wrapper(lim, now) ==
    LET Recent(ts) == ts > now - lim.period
        kept       == SelectSeq(lim.timestamps, Recent)
        sleep_time == IF Len(kept) >= lim.calls
                      THEN kept[1] - (now - lim.period)
                      ELSE 0
        started    == IF sleep_time > 0 THEN now + sleep_time ELSE now
    IN  [lim EXCEPT !.timestamps = Append(kept, now),
                    !.clock = started,
                    !.starts = Append(@, started)]

LimitedCall ==
    /\ limiter.built
    /\ Len(limiter.starts) < MaxWrapperCalls
    /\ \E gap \in 0..MaxGap : limiter' = wrapper(limiter, limiter.clock + gap)
    /\ UNCHANGED <<data, last, run, cli, auth>>

\* --------------------------------------------------------- NSEAuthManager

\* The clock counts half hours; a token lives one hour (timedelta(hours=1)).
Hour == 2

MaxClock == 4

\* Tokens the token endpoint hands out are numbered 1, 2, ...; 0 is None.
MaxTokens == 2

\* token_expiry: None, a datetime (set by get_auth_headers), or the str that
\* json.load gives back for what _save_credentials wrote with isoformat().
NoExpiry == [type |-> "none", t |-> 0]

DateTime(t) == [type |-> "datetime", t |-> t]

IsoText(t) == [type |-> "str", t |-> t]

\* APICredentials(api_key=...): the other fields default to None.
APICredentials(api_key) ==
    [api_key |-> api_key, access_token |-> 0, token_expiry |-> NoExpiry]

\* The credentials file: absent, not JSON, or the JSON of some credentials.
FileContents ==
    { APICredentials("key"),
      [APICredentials("key") EXCEPT !.access_token = 1],
      [APICredentials("key") EXCEPT !.access_token = 1,
                                    !.token_expiry = IsoText(1)] }

Files ==
    {[state |-> "missing", creds |-> APICredentials("")],
     [state |-> "unparsable", creds |-> APICredentials("")]}
        \cup {[state |-> "valid", creds |-> c] : c \in FileContents}

NoHeaders == [called |-> FALSE, raised |-> FALSE, scheme |-> "", token |-> 0]

NoManager ==
    [pc |-> "none", file |-> "none", has_logger |-> FALSE,
     credentials |-> APICredentials(""), clock |-> 0, issued |-> 0,
     ret |-> NoHeaders]

\* self.logger.warning / self.logger.error: AttributeError while the
\* attribute logger is not yet set.
LoggerRaises(has_logger) == ~has_logger

\* _load_credentials(): the file is read inside try; a missing file is
\* logged with self.logger.warning inside the try block, and the handler of
\* `except Exception` logs with self.logger.error.  An exception raised by
\* the handler itself leaves the method.
_load_credentials(file, has_logger) ==
    LET in_try  == CASE file.state = "valid"   -> "return"
                     [] file.state = "missing" ->
                            IF LoggerRaises(has_logger) THEN "except" ELSE "default"
                     [] OTHER                  -> "except"
    IN  CASE in_try = "return"  -> [raised |-> FALSE, creds |-> file.creds]
          [] in_try = "default" -> [raised |-> FALSE, creds |-> APICredentials("")]
          [] OTHER ->
                IF LoggerRaises(has_logger)
                THEN [raised |-> TRUE, creds |-> APICredentials("")]
                ELSE [raised |-> FALSE, creds |-> APICredentials("")]

\* NSEAuthManager(credentials_file): self.credentials = _load_credentials()
\* comes first, self._setup_logging() second.
NewNSEAuthManager ==
    /\ auth.pc = "none"
    /\ \E file \in Files :
          LET loaded == _load_credentials(file, FALSE)
          IN  auth' = [NoManager EXCEPT
                         !.pc = IF loaded.raised THEN "init_raised" ELSE "built",
                         !.file = file.state,
                         !.has_logger = ~loaded.raised,
                         !.credentials = loaded.creds]
    /\ UNCHANGED <<data, last, run, cli, limiter>>

\* _generate_access_token(): the token endpoint answers with a token, or
\* the request fails (the exception is caught and logged) or the answer has no
\* access_token: None.
TokenOutcomes == {"token", "none"}

\* get_auth_headers().  A str expiry (credentials loaded from a file written
\* by _save_credentials) makes `now >= token_expiry` raise TypeError.
get_auth_headers(a, outcome) ==
    LET now   == a.clock
        creds == a.credentials
        stale == \/ creds.access_token = 0
                 \/ creds.token_expiry.type = "none"
                 \/ now >= creds.token_expiry.t
        token == IF outcome = "token" THEN a.issued + 1 ELSE 0
        fresh == IF stale /\ token # 0
                 THEN [creds EXCEPT !.access_token = token,
                                    !.token_expiry = DateTime(now + Hour)]
                 ELSE creds
    IN  IF creds.access_token # 0 /\ creds.token_expiry.type = "str"
        THEN [a EXCEPT !.pc = "returned",
                       !.ret = [NoHeaders EXCEPT !.called = TRUE, !.raised = TRUE]]
        ELSE [a EXCEPT
                !.pc = "returned",
                !.credentials = fresh,
                !.issued = IF stale /\ token # 0 THEN token ELSE @,
                !.ret = [called |-> TRUE, raised |-> FALSE,
                         scheme |-> IF fresh.access_token # 0 THEN "Bearer" ELSE "",
                         token |-> fresh.access_token]]

GetAuthHeaders ==
    /\ auth.pc = "built"
    /\ \E outcome \in TokenOutcomes :
          /\ outcome = "token" => auth.issued < MaxTokens
          /\ auth' = get_auth_headers(auth, outcome)
    /\ UNCHANGED <<data, last, run, cli, limiter>>

\* The caller has the headers (or the exception).
AuthReturn ==
    /\ auth.pc = "returned"
    /\ auth' = [auth EXCEPT !.pc = "built", !.ret = NoHeaders]
    /\ UNCHANGED <<data, last, run, cli, limiter>>

\* set_credentials(api_key, api_secret): new credentials, no token.
SetCredentials ==
    /\ auth.pc = "built"
    /\ \E api_key \in {"key", "other"} :
          auth' = [auth EXCEPT !.credentials = APICredentials(api_key)]
    /\ UNCHANGED <<data, last, run, cli, limiter>>

\* Half an hour passes.
Tick ==
    /\ auth.pc = "built"
    /\ auth.clock < MaxClock
    /\ auth' = [auth EXCEPT !.clock = @ + 1]
    /\ UNCHANGED <<data, last, run, cli, limiter>>

\* ------------------------------------------------------------------- specs

Init ==
    /\ data = NoData
    /\ last = NoCall
    /\ run = NotBuilt
    /\ cli = NotParsed
    /\ limiter = NoLimiter
    /\ auth = NoManager

Next ==
    \/ SetData
    \/ CalculateRsi
    \/ CalculateMacd
    \/ CalculateBollingerBands
    \/ Analyze
    \/ Return

Spec == Init /\ [][Next]_vars

NextRun ==
    \/ NewStockAnalyzer
    \/ PlantData
    \/ RunStart
    \/ RunSymbol
    \/ RunReturn
    \/ RunDone

SpecRun == Init /\ [][NextRun]_vars

NextCli == ParseArgs \/ CliMain \/ CliReturn

SpecCli == Init /\ [][NextCli]_vars

NextLimiter == NewRateLimiter \/ LimitedCall

SpecLimiter == Init /\ [][NextLimiter]_vars

NextAuth ==
    \/ NewNSEAuthManager
    \/ GetAuthHeaders
    \/ AuthReturn
    \/ SetCredentials
    \/ Tick

SpecAuth == Init /\ [][NextAuth]_vars

\* ------------------------------------------------------------------ claims

\* What the last call was, on data that is present.
IsRsi == last.op = "calculate_rsi" /\ ~data.none

IsMacd == last.op = "calculate_macd" /\ ~data.none

IsBollinger == last.op = "calculate_bollinger_bands" /\ ~data.none

\* The windows and spans of the last call are all positive (the multiplier of
\* the bands is not a window).
PositiveWindows ==
    CASE last.op = "calculate_macd" -> \A i \in 1..3 : last.args[i] >= 1
      [] last.op \in {"calculate_rsi", "calculate_bollinger_bands"} ->
            last.args[1] >= 1
      [] OTHER -> TRUE

Hundred == Num(100, 1)

\* The last n elements of s.
Suffix(s, n) == SubSeq(s, Len(s) - n + 1, Len(s))

Frame(s) == [none |-> FALSE, close |-> s]

\* Every close-to-close step among the last n steps is >= 0 (resp. <= 0).
LastStepsNonNegative(s, n) == \A i \in (Len(s) - n + 1)..Len(s) : s[i] >= s[i - 1]

NonIncreasing(s) == \A i \in 2..Len(s) : s[i] <= s[i - 1]

\* C1: whenever calculate_rsi returns a value that is not None, the value is a
\* real number v with 0 <= v <= 100, never NaN or infinite.
C1_RsiInRange ==
    (last.op = "calculate_rsi" /\ ~last.res.none) =>
        LET v == last.res.v[1]
        IN  IsNum(v) /\ FLe(Zero, v) /\ FLe(v, Hundred)

\* C2: for num_std >= 0, a not-None result of calculate_bollinger_bands has
\* lower_band <= middle_band <= upper_band, none of them NaN, period = 1 included.
C2_BandsOrdered ==
    (last.op = "calculate_bollinger_bands" /\ last.args[2] >= 0 /\ ~last.res.none) =>
        /\ SLe(last.res.v[3], last.res.v[2])
        /\ SLe(last.res.v[2], last.res.v[1])

\* C3: on a series of length >= period + 1 whose last `period` steps are all
\* non-negative (zero average loss, a flat window included), calculate_rsi
\* returns exactly 100.
C3_ZeroLossSaturates ==
    (IsRsi /\ DfLen(data) >= last.args[1] + 1
           /\ LastStepsNonNegative(data.close, last.args[1])) =>
        last.res = Some(<<Hundred>>)

\* C4 as stated: on every non-increasing series of length >= period + 1,
\* calculate_rsi returns 0.
C4_NonIncreasingGivesZero ==
    (IsRsi /\ DfLen(data) >= last.args[1] + 1 /\ NonIncreasing(data.close)) =>
        last.res = Some(<<Zero>>)

\* Some step among the last n steps is strictly negative.
LastStepsHaveLoss(s, n) == \E i \in (Len(s) - n + 1)..Len(s) : s[i] < s[i - 1]

\* C4 amended: on every non-increasing series of length >= period + 1 with at
\* least one strictly falling step among its last `period` steps,
\* calculate_rsi returns 0.
C4_FallingGivesZero ==
    (IsRsi /\ DfLen(data) >= last.args[1] + 1 /\ NonIncreasing(data.close)
           /\ LastStepsHaveLoss(data.close, last.args[1])) =>
        last.res = Some(<<Zero>>)

C4_Witness ==
    /\ IsRsi /\ DfLen(data) >= last.args[1] + 2 /\ NonIncreasing(data.close)
    /\ LastStepsHaveLoss(data.close, last.args[1])
    /\ ~LastStepsNonNegative(data.close, 1) /\ data.close[2] = data.close[1]
    /\ last.res = Some(<<Zero>>)

\* C5: calculate_rsi(period = n) returns None for every series with fewer
\* than n + 1 observations, a series of exactly n observations included.
C5_RsiNeedsPeriodPlusOne ==
    (IsRsi /\ DfLen(data) < last.args[1] + 1) => last.res.none

\* The window of the last call: period (RSI, Bollinger) or slow_period (MACD).
WindowOfLast == IF last.op = "calculate_macd" THEN last.args[2] ELSE last.args[1]

\* C6: for each indicator with its window n, a series of exactly n - 1
\* observations gives None and a series of exactly n observations gives a
\* result that is not None.
C6_WindowBoundary ==
    ((IsRsi \/ IsMacd \/ IsBollinger) /\ PositiveWindows) =>
        /\ DfLen(data) = WindowOfLast - 1 => last.res.none
        /\ DfLen(data) = WindowOfLast => ~last.res.none

C6_Witness == IsRsi /\ DfLen(data) = last.args[1] /\ DfLen(data) >= 2 /\ ~last.res.none

\* The recursion of the claim: e[1] = x[1], e[t] = a * x[t] + (1 - a) * e[t - 1],
\* a = 2 / (span + 1), from the first observation of the series; EmaUpTo is
\* the sequence e[1], ..., e[t].
RECURSIVE EmaUpTo(_, _, _)
EmaUpTo(x, span, t) ==
    IF t = 1 THEN <<x[1]>>
    ELSE LET a    == Num(2, span + 1)
             prev == EmaUpTo(x, span, t - 1)
         IN  Append(prev,
                    FAdd(FMul(a, x[t]), FMul(FSub(Num(1, 1), a), prev[t - 1])))

Ema(x, span, t) == EmaUpTo(x, span, t)[t]

\* The (fast - slow) line of the whole series.
LineSeries(x, fast, slow) ==
    LET F == EmaUpTo(x, fast, Len(x))
        S == EmaUpTo(x, slow, Len(x))
    IN  [t \in 1..Len(x) |-> FSub(F[t], S[t])]

\* C7: for a series of length >= slow_period, calculate_macd returns
\* macd_line = F - S, signal_line = G, histogram = macd_line - signal_line, F and
\* S the last values of the recursion over the whole close series with the fast
\* and the slow span, G the last value of the recursion with the signal span
\* over the whole (fast - slow) line.
C7_MacdIsWholeHistoryEma ==
    (IsMacd /\ PositiveWindows /\ DfLen(data) >= last.args[2]) =>
        LET x    == CLOSE(data)
            line == LineSeries(x, last.args[1], last.args[2])
            G    == Ema(line, last.args[3], Len(x))
        IN  last.res = Some(<<Last(line), G, FSub(Last(line), G)>>)

C7_Witness ==
    /\ IsMacd /\ DfLen(data) > last.args[2] /\ last.args[1] < last.args[2]
    /\ last.args[1] > 1 /\ last.args[3] > 1
    /\ ~last.res.none /\ last.res.v[3].n # 0

\* The mean and the sample variance (divisor n - 1) of a window, in two passes.
MeanOf(w) == FDiv(FSum(w), Num(Len(w), 1))

SampleVarOf(w) ==
    LET m == MeanOf(w)
    IN  FDiv(FSum([i \in 1..Len(w) |-> FMul(FSub(w[i], m), FSub(w[i], m))]),
             Num(Len(w) - 1, 1))

MeanGain(s, n) ==
    FDiv(FSum([j \in 1..n |->
                  LET i == Len(s) - n + j
                  IN  IF s[i] > s[i - 1] THEN Num(s[i] - s[i - 1], 1) ELSE Zero]),
         Num(n, 1))

MeanLoss(s, n) ==
    FDiv(FSum([j \in 1..n |->
                  LET i == Len(s) - n + j
                  IN  IF s[i] < s[i - 1] THEN Num(s[i - 1] - s[i], 1) ELSE Zero]),
         Num(n, 1))

\* C9: for a series of length >= n + 1, calculate_rsi(n) is
\* 100 - 100 / (1 + G / L), G and L the simple means of the gains and of the
\* losses over the last n changes, and it is the value on the last n + 1 closes
\* alone.
C9_RsiOfTrailingWindow ==
    (IsRsi /\ PositiveWindows /\ DfLen(data) >= last.args[1] + 1) =>
        LET n  == last.args[1]
            G  == MeanGain(data.close, n)
            L  == MeanLoss(data.close, n)
            rs == FDivZ(G, L, last.zs)
        IN  /\ last.res = Some(<<FSub(Hundred, FDiv(Hundred, FAdd(Num(1, 1), rs)))>>)
            /\ last.res = calculate_rsi(Frame(Suffix(data.close, n + 1)), n, last.zs)

C9_Witness ==
    /\ IsRsi /\ DfLen(data) >= last.args[1] + 2 /\ last.args[1] >= 2
    /\ ~last.res.none /\ IsNum(last.res.v[1])
    /\ last.res.v[1].n # 0 /\ last.res.v[1] # Hundred
    /\ data.close[2] # data.close[1]

\* C10: on a constant series of length >= slow_period, calculate_macd returns
\* macd_line = 0, signal_line = 0 and histogram = 0.
C10_ConstantSeriesMacdZero ==
    (IsMacd /\ PositiveWindows /\ DfLen(data) >= last.args[2]
        /\ IsConstant(data.close)) =>
        last.res = Some(<<Zero, Zero, Zero>>)

C10_Witness ==
    /\ IsMacd /\ data.close = Const26
    /\ last.args = <<DefaultFast, DefaultSlow, DefaultSignal>>
    /\ last.res = Some(<<Zero, Zero, Zero>>)

\* C11: for a constant close series of value c whose length is at least the
\* period, calculate_bollinger_bands returns upper = middle = lower = c.
C11_ConstantSeriesBands ==
    (IsBollinger /\ PositiveWindows /\ DfLen(data) >= last.args[1]
        /\ IsConstant(data.close)) =>
        LET c == SOf(Num(data.close[1], 1))
        IN  last.res = Some(<<c, c, c>>)

IsAnalyze == last.op = "analyze"

\* C12: each field of the result of analyze(indicators) is None when its
\* identifier (RSI, MACD, BB) is not in the request, and otherwise is what the
\* calculate_* method returns with its default parameters on the data held.
C12_AnalyzeRunsOnlyRequested ==
    IsAnalyze =>
        LET indicators == last.args[1]
        IN  /\ last.res.rsi =
                  IF "RSI" \in indicators
                  THEN calculate_rsi(data, 14, last.zs) ELSE None
            /\ last.res.macd =
                  IF "MACD" \in indicators
                  THEN calculate_macd(data, 12, 26, 9) ELSE None
            /\ last.res.bollinger_bands =
                  IF "BB" \in indicators
                  THEN calculate_bollinger_bands(data, 20, Num(2, 1)) ELSE None

\* analyze({RSI, MACD}) on 26 observations: RSI and MACD computed, no bands.
C12_Witness ==
    /\ IsAnalyze
    /\ last.args[1] = {"RSI", "MACD"}
    /\ DfLen(data) = 26
    /\ ~last.res.rsi.none
    /\ ~last.res.macd.none
    /\ last.res.bollinger_bands.none

\* The identifiers the dispatcher knows, and an identifier in upper case.
KnownIndicators == {"RSI", "MACD", "BB"}

Upper(id) ==
    CASE id = "rsi"  -> "RSI"
      [] id = "macd" -> "MACD"
      [] id = "bb"   -> "BB"
      [] OTHER       -> id

\* C13: analyze takes identifiers case-insensitively (a request naming 'rsi'
\* computes RSI as 'RSI' does) and a request holding an identifier outside
\* {RSI, MACD, BB} ends in a validation error.
C13_CaseInsensitiveAndRejecting ==
    IsAnalyze =>
        LET indicators == last.args[1]
            upper      == {Upper(id) : id \in indicators}
        IN  IF upper \subseteq KnownIndicators
            THEN /\ ~last.raised
                 /\ last.res = analyze(data, upper, last.zs)
            ELSE last.raised

\* A call of calculate_rsi, calculate_macd, calculate_bollinger_bands or
\* analyze is made in this step.
CallMade == last.op = "none" /\ last'.op # "none"

\* C15: analyze and each calculate_* method leave the frame held by the
\* analyzer as it was (same observations, same order, same values in every
\* column), and change nothing else of the analyzer.
C15_CallsLeaveDataUnchanged == [][CallMade => data' = data]_vars

\* calculate_rsi() has returned a value on the 30 rising observations given
\* to set_data, and they are all still there.
C15_Witness ==
    /\ IsRsi
    /\ last.args = <<DefaultRsiPeriod>>
    /\ ~last.res.none
    /\ data = MkFrame(Rising30)

\* The number of observations below which the default call of an indicator
\* returns None.
DefaultWindow(id) ==
    CASE id = "RSI"  -> 14
      [] id = "MACD" -> 26
      [] id = "BB"   -> 20

FieldOf(res, id) ==
    CASE id = "RSI"  -> res.rsi
      [] id = "MACD" -> res.macd
      [] id = "BB"   -> res.bollinger_bands

\* C16: when analyze is asked for several indicators, no error is raised,
\* the field of every requested indicator with fewer observations than its
\* window is None, and the field of every requested indicator with enough
\* observations is present.
C16_TooShortOnesAbsentOthersPresent ==
    (IsAnalyze /\ ~data.none) =>
        /\ ~last.raised
        /\ \A id \in last.args[1] \cap KnownIndicators :
              FieldOf(last.res, id).none <=> DfLen(data) < DefaultWindow(id)

\* 22 observations and the request {RSI, MACD, BB}: macd is None, rsi and
\* the bands are there.
C16_Witness ==
    /\ IsAnalyze
    /\ DfLen(data) = 22
    /\ last.args[1] = {"RSI", "MACD", "BB"}
    /\ ~last.raised
    /\ last.res.macd.none
    /\ ~last.res.rsi.none /\ IsNum(last.res.rsi.v[1])
    /\ ~last.res.bollinger_bands.none

IsCalculate ==
    last.op \in {"calculate_rsi", "calculate_macd", "calculate_bollinger_bands"}

\* C17: a calculate_* call with a non-positive window or span ends in a
\* validation error: it returns neither None nor a number nor NaN.
C17_NonPositiveWindowRejected ==
    (IsCalculate /\ ~PositiveWindows) => last.raised

\* The input invariants of a price series: dates strictly increasing (hence
\* no date twice), and low <= open, close <= high on every row.
DatesIncreasing(df) == \A i \in 2..Len(df.date) : df.date[i - 1] < df.date[i]

OhlcOrdered(df) ==
    \A i \in 1..Len(df.close) :
        /\ df.low[i] <= df.open[i] /\ df.open[i] <= df.high[i]
        /\ df.low[i] <= df.close[i] /\ df.close[i] <= df.high[i]

Malformed(df) == ~df.none /\ ~(DatesIncreasing(df) /\ OhlcOrdered(df))

\* The last call gave no indicator value.
NoValue ==
    IF IsAnalyze
    THEN last.res.rsi.none /\ last.res.macd.none /\ last.res.bollinger_bands.none
    ELSE last.res.none

\* C18: a series that breaks the input invariants never yields an indicator
\* value: a call made on it ends in an error or returns nothing.
C18_MalformedYieldsNoValue ==
    (Malformed(data) /\ (IsCalculate \/ IsAnalyze)) => (last.raised \/ NoValue)

\* What analyze returns for a symbol's frame on an analyzer that has seen
\* nothing else, for each effective request of a StockAnalyzer.
EffectiveRequests == { {"RSI", "MACD"}, {"BB"}, {"RSI", "MACD", "BB"} }

AnalysisAlone ==
    [s \in Symbols |->
        [indicators \in EffectiveRequests |-> analyze(Fetch(s), indicators, 1)]]

\* C14: the result stored for a symbol in StockAnalyzer.run is the result of
\* analyze on that symbol's series and the request alone, whatever frames the
\* shared analyzer was given before (by set_data, by earlier symbols of the
\* batch or by earlier runs).
C14_ResultOfSymbolAlone ==
    \A s \in Symbols :
        run.results[s].present =>
            run.results[s].technical_indicators = AnalysisAlone[s][run.indicators]

\* A batch of two symbols with different frames has returned, the second
\* analyzed after the first on the same analyzer.
C14_Witness ==
    /\ run.pc = "returned"
    /\ run.symbols = <<"TCS", "INFY">>
    /\ run.results["TCS"].present /\ run.results["INFY"].present
    /\ run.results["TCS"] # run.results["INFY"]
    /\ data = Fetch("INFY")

\* C19: when fetching or analyzing one symbol of a batch fails, the batch is
\* not aborted: every other symbol that has data is analyzed and is in the
\* results.
C19_FailureDoesNotAbortBatch ==
    run.pc = "raised" =>
        \A j \in 1..Len(run.symbols) :
            (run.symbols[j] # run.symbols[run.i]
                /\ DfLen(Fetch(run.symbols[j])) > 0) =>
                run.results[run.symbols[j]].present

\* C20: when --period and --indicators are not on the command line,
\* parse_args yields period = 90 and indicators = the list ['RSI', 'MACD'];
\* when --period N is given it yields period = N.
C20_ParseArgsDefaults ==
    cli.pc = "parsed" =>
        /\ cli.argv.period = Omitted => cli.ns.period = 90
        /\ cli.argv.indicators = Omitted =>
              /\ cli.ns.indicators.type = "list"
              /\ cli.ns.indicators.v = <<"RSI", "MACD">>
        /\ cli.argv.period # Omitted => cli.ns.period = IntOf(cli.argv.period).v

\* C21: parse_args called without an argument list returns the --symbols and
\* --indicators values as the lists of their comma-separated items, in input
\* order.
C21_ParseArgsReturnsLists ==
    (cli.pc \in {"parsed", "raised"} /\ ~cli.given
        /\ parse_args(cli.argv).exit = FALSE) =>
        /\ cli.pc = "parsed"
        /\ cli.ns.symbols.type = "list"
        /\ cli.ns.symbols.v = Split(cli.argv.symbols)
        /\ cli.argv.indicators # Omitted =>
              /\ cli.ns.indicators.type = "list"
              /\ cli.ns.indicators.v = Split(cli.argv.indicators)

\* C22: an invocation of cli.main whose --period is <= 0 or > 1825 does not
\* call StockAnalyzer.run, and main returns exit code 1.
C22_PeriodOutOfRangeRejected ==
    (cli.pc = "returned" /\ cli.out.called /\ ~validate_period(cli.ns.period).ok) =>
        /\ ~cli.out.run_called
        /\ cli.out.exit_code = 1

\* C23: the function wrapped by RateLimiter(calls, period) is started at
\* most `calls` times in any time interval of length `period`: any calls + 1
\* successive starts are at least `period` apart.
C23_AtMostCallsPerPeriod ==
    \A i \in 1..(Len(limiter.starts) - limiter.calls) :
        limiter.starts[i + limiter.calls] - limiter.starts[i] >= limiter.period

\* C24: get_auth_headers never returns an Authorization header carrying a
\* token that has no expiry or whose expiry is at or before the current
\* time; a regenerated token is stored with an expiry one hour after now.
C24_NoExpiredTokenInHeaders ==
    (auth.pc = "returned" /\ ~auth.ret.raised /\ auth.ret.scheme = "Bearer") =>
        /\ auth.ret.token = auth.credentials.access_token
        /\ auth.credentials.token_expiry.type = "datetime"
        /\ auth.clock < auth.credentials.token_expiry.t

\* C25: constructing NSEAuthManager with a credentials file that does not
\* exist or cannot be parsed completes without raising and leaves
\* credentials = APICredentials(api_key="").
C25_ConstructionSurvivesBadFile ==
    (auth.pc # "none" /\ auth.file \in {"missing", "unparsable"}) =>
        /\ auth.pc # "init_raised"
        /\ auth.credentials = APICredentials("")

====
